---- MODULE Spec2Model ----
(***************************************************************************)
(* A state-machine model of the virtualised data grid: the GridTable      *)
(* (element tree) and CanvasTable (raster) windowing engines, the browser  *)
(* facilities they run on (animation frames, timers, the document) and the *)
(* input events they consume.                                              *)
(***************************************************************************)
EXTENDS Integers, Sequences, FiniteSets, TLC

VARIABLES
    tables,   \* instance id -> the fields of that GridTable / CanvasTable object
    raf,      \* the browser's list of pending requestAnimationFrame callbacks
    dom,      \* instance id -> what the document holds for that instance
    fault,    \* the last handler ended with an uncaught exception
    halted,   \* instance id -> stopAutoScroll() ran since the last effective start
    stepped,  \* instance id -> the last step ran the auto-scroll loop's scroll call
    quiet,    \* the user has stopped producing input
    tick,     \* parity of the display frames run so far
    textLayer, \* the last cell text the raster engine drew, with what it was drawn from
    app       \* the closure variables of App(): gridTable, startScrolling, the view shown

vars == <<tables, raf, dom, fault, halted, stepped, quiet, tick, textLayer, app>>

(***************************************************************************)
(* Bounds of the model: the inputs the environment draws from.            *)
(***************************************************************************)
\* the instances living in one document, numbered in the order of their containers
OneInstance == {1}
TwoInstances == {1, 2}
Instances == DOMAIN tables
Classes == {"GridTable", "CanvasTable"}
DataLens == {0, 3, 10, 11}
ViewHeights == {88, 154}
InitHeights == {154}
CellHeight == 22
MaxTops == {4}
DragOffsets == {1}
MouseYs == {0, 3, 5}
DeltaYs == {-100, 0, 100}
FrameDts == {1, 2, 3}
Queries == {<< >>, <<"a">>, <<"B">>, <<"z">>}
\* GridTable's start has no upper clamp: wheel input stops once it is this far down
MaxStart == 12
\* render() may be called this many times on one instance
MaxRenders == 2
\* cell texts have up to this many characters and measure up to this many pixels
MaxTextLen == 8
MaxTextWidth == 40
CellWidths == {10, 12, 20, 40}

(***************************************************************************)
(* JavaScript numbers.  Window indices are integers or NaN (0/0 after a    *)
(* drag over a zero-height track); NaN is a value outside the index range. *)
(***************************************************************************)
NaN == -1000000
NULL == 0

isNaN(x) == x = NaN
JsAdd(a, b) == IF isNaN(a) \/ isNaN(b) THEN NaN ELSE a + b
JsSub(a, b) == IF isNaN(a) \/ isNaN(b) THEN NaN ELSE a - b
MathMax(a, b) == IF isNaN(a) \/ isNaN(b) THEN NaN ELSE IF a >= b THEN a ELSE b
MathMin(a, b) == IF isNaN(a) \/ isNaN(b) THEN NaN ELSE IF a <= b THEN a ELSE b
JsLt(a, b) == ~isNaN(a) /\ ~isNaN(b) /\ a < b
JsLe(a, b) == ~isNaN(a) /\ ~isNaN(b) /\ a <= b
JsGe(a, b) == ~isNaN(a) /\ ~isNaN(b) /\ a >= b
StrictEq(a, b) == ~isNaN(a) /\ ~isNaN(b) /\ a = b

\* Math.floor(n / d) for integers n and d > 0
MathFloorDiv(n, d) == n \div d
\* Math.ceil(n / d) for integers n and d > 0
MathCeilDiv(n, d) == -((-n) \div d)

(***************************************************************************)
(* Strings are sequences of characters; a cell is a string or null.       *)
(***************************************************************************)
NullCell == <<"#null">>

toLowerCaseChar(c) == IF c = "A" THEN "a" ELSE IF c = "B" THEN "b" ELSE c
toLowerCase(s) == [k \in 1..Len(s) |-> toLowerCaseChar(s[k])]
includes(s, q) == \E k \in 0..(Len(s) - Len(q)) : SubSeq(s, k + 1, k + Len(q)) = q
String(c) == IF c = NullCell THEN <<"n", "u", "l", "l">> ELSE c

ColumnIds == <<"0", "1">>
Number(id) == CHOOSE k \in 0..(Len(ColumnIds) - 1) : ColumnIds[k + 1] = id

RowPool == << << <<"A", "b">>, <<"b">> >>,
              << <<"b">>, <<"a">> >>,
              << <<"a">>, NullCell >>,
              << <<"B", "a">>, <<"A">> >> >>
DataOf(n) == [k \in 1..n |-> RowPool[((k - 1) % Len(RowPool)) + 1]]
Configs == {[cellHeight |-> CellHeight, viewHeight |-> h] : h \in InitHeights}

\* Array.prototype.filter
RECURSIVE filter(_, _, _)
filter(rows, col, value) ==
    IF rows = << >> THEN << >>
    ELSE LET rest == filter(Tail(rows), col, value)
         IN IF includes(toLowerCase(String(Head(rows)[col + 1])), toLowerCase(value))
            THEN <<Head(rows)>> \o rest
            ELSE rest

(***************************************************************************)
(* The world an operation acts on.                                         *)
(***************************************************************************)
\* passes counts, per instance, the content render passes the operation has run
World == [tables |-> tables, raf |-> raf, dom |-> dom, app |-> app, thrown |-> FALSE,
          stepped |-> [i \in DOMAIN tables |-> FALSE],
          passes |-> [i \in DOMAIN tables |-> 0]]

\* Handles are opaque and only compared for equality: between steps every pending
\* callback is renamed to its position in the list, and a handle that is held but no
\* longer pending to one beyond the list.
canonicalHandles(W) ==
    LET pending(id) == \E k \in 1..Len(W.raf) : W.raf[k].id = id
        position(id) == CHOOSE k \in 1..Len(W.raf) : W.raf[k].id = id
    IN [W EXCEPT
          !.raf = [k \in 1..Len(W.raf) |-> [W.raf[k] EXCEPT !.id = k]],
          !.tables = [i \in DOMAIN W.tables |->
              [W.tables[i] EXCEPT !.autoScrollId =
                  IF @ = NULL THEN NULL
                  ELSE IF pending(@) THEN position(@)
                  ELSE Len(W.raf) + i]]]

Apply(W) ==
    \E C \in {canonicalHandles(W)} :
       /\ tables' = C.tables
       /\ raf' = C.raf
       /\ dom' = C.dom
       /\ fault' = C.thrown
       /\ stepped' = C.stepped
       /\ app' = C.app
       /\ UNCHANGED textLayer

\* handles in use: a fresh handle is one that no pending callback and no field holds
HandlesInUse(W) ==
    {W.raf[k].id : k \in 1..Len(W.raf)}
        \cup {W.tables[i].autoScrollId : i \in DOMAIN W.tables}
FreshHandle(W) ==
    CHOOSE n \in 1..(Cardinality(HandlesInUse(W)) + 1) :
        /\ n \notin HandlesInUse(W)
        /\ \A m \in 1..(n - 1) : m \in HandlesInUse(W)

\* registers a callback under a fresh handle
requestAnimationFrame(W, i, kind) ==
    [W EXCEPT !.raf = Append(@, [id |-> FreshHandle(W), inst |-> i, kind |-> kind])]
returnedHandle(W) == W.raf[Len(W.raf)].id

RECURSIVE without(_, _)
without(q, id) ==
    IF q = << >> THEN << >>
    ELSE IF Head(q).id = id THEN without(Tail(q), id)
    ELSE <<Head(q)>> \o without(Tail(q), id)

cancelAnimationFrame(W, id) == [W EXCEPT !.raf = without(@, id)]

\* document.querySelector(): the first match in document order, if there is one
firstMatch(S) == IF S = {} THEN NULL ELSE CHOOSE j \in S : \A k \in S : j <= k

\* the scrollbar elements instance i holds: those of the markup of instance scrollbar,
\* or elements that are in no document (none before render(), the old ones after an
\* innerHTML assignment replaced the markup they were part of)
Detached == -1
boundScrollbar(W, i) == W.tables[i].scrollbar

\* clientHeight(track) - clientHeight(thumb); both are 0 for detached elements
maxThumbTravel(W, i) ==
    LET j == boundScrollbar(W, i)
    IN IF j # Detached /\ W.dom[j].present THEN W.dom[j].maxTop ELSE 0

\* this.scrollbarThumb.style.top = p
setThumbTop(W, i, p) ==
    LET j == boundScrollbar(W, i)
    IN IF j = Detached THEN W ELSE [W EXCEPT !.tables[j].thumbTop = p]

\* the offset of the thumb instance i holds
boundThumbTop(W, i) ==
    LET j == boundScrollbar(W, i)
    IN IF j = Detached THEN <<0, 1>> ELSE W.tables[j].thumbTop


(***************************************************************************)
(* Pixel offsets are rationals <<n, d>> in lowest terms.                   *)
(***************************************************************************)
RECURSIVE gcd(_, _)
gcd(a, b) == IF b = 0 THEN a ELSE gcd(b, a % b)
Px(n, d) == LET g == gcd(n, d) IN IF n = 0 THEN <<0, 1>> ELSE <<n \div g, d \div g>>
\* p - k for a pixel offset p and a whole number of pixels k (may be negative)
PxMinus(p, k) == <<p[1] - k * p[2], p[2]>>
\* Math.max(0, Math.min(p, maxTop))
PxClamp(p, maxTop) ==
    IF p[1] > maxTop * p[2]
    THEN (IF maxTop < 0 THEN Px(0, 1) ELSE Px(maxTop, 1))
    ELSE IF p[1] < 0 THEN Px(0, 1) ELSE Px(p[1], p[2])

\* the timers a debounced function has pending, oldest first, each with its arguments
NoTimer == << >>

\* a debounced function that starts a new timer without clearing the one before
debounce_keepsEarlier(timers, args) == timers \o <<args>>

\* a call of a debounced function: clearTimeout(timeoutId), then setTimeout with args
debounce(timers, args) == <<args>>

(***************************************************************************)
(* GridTable                                                               *)
(***************************************************************************)
G_SCROLL_STEP == 4
G_scrollDelay == 2
AgeCap == 3

G_visibleCount(config) == MathFloorDiv(config.viewHeight, config.cellHeight) - 2

\* the object after `new GridTable(container, columns, config)`
G_constructor(config) ==
    [cls |-> "GridTable", config |-> config,
     data |-> << >>, filteredData |-> << >>,
     start |-> 0, end |-> G_visibleCount(config), visibleCount |-> G_visibleCount(config),
     isThumbDragging |-> FALSE, dragStartY |-> 0,
     isFrameUpdateScheduled |-> FALSE,
     autoScrollId |-> NULL, lastScrollAge |-> AgeCap,
     isThrottled |-> FALSE, searchTimer |-> NoTimer, dragTimer |-> NoTimer,
     rendered |-> FALSE, scrollbar |-> Detached, thumbTop |-> Px(0, 1), renderedCells |-> 0]

\* handleScroll() that asks for a frame on every request, pending or not
G_handleScroll_alwaysRequests(W, i, scrollDelta) ==
    LET t == W.tables[i]
        start1 == IF scrollDelta < 0 THEN JsSub(t.start, G_SCROLL_STEP)
                  ELSE JsAdd(t.start, G_SCROLL_STEP)
        end1 == IF scrollDelta < 0 THEN JsSub(t.end, G_SCROLL_STEP)
                ELSE JsAdd(t.end, G_SCROLL_STEP)
    IN IF \/ (scrollDelta < 0 /\ StrictEq(t.start, 0))
          \/ (scrollDelta > 0 /\ StrictEq(t.end, Len(t.data) - 1))
       THEN W
       ELSE requestAnimationFrame(
                [W EXCEPT !.tables[i].start = MathMax(0, start1),
                          !.tables[i].end = MathMin(Len(t.data) + 1, end1),
                          !.tables[i].isFrameUpdateScheduled = TRUE], i, "render")

G_handleScroll(W, i, scrollDelta) ==
    LET t == W.tables[i]
        totalRows == Len(t.data)
        start1 == IF scrollDelta < 0 THEN JsSub(t.start, G_SCROLL_STEP)
                  ELSE JsAdd(t.start, G_SCROLL_STEP)
        end1 == IF scrollDelta < 0 THEN JsSub(t.end, G_SCROLL_STEP)
                ELSE JsAdd(t.end, G_SCROLL_STEP)
        W1 == [W EXCEPT !.tables[i].start = MathMax(0, start1),
                        !.tables[i].end = MathMin(totalRows + 1, end1)]
    IN IF \/ (scrollDelta < 0 /\ StrictEq(t.start, 0))
          \/ (scrollDelta > 0 /\ StrictEq(t.end, totalRows - 1))
       THEN W
       ELSE IF t.isFrameUpdateScheduled THEN W1
       ELSE requestAnimationFrame(
                [W1 EXCEPT !.tables[i].isFrameUpdateScheduled = TRUE], i, "render")

G_syncThumbPositionWithScroll(W, i) ==
    LET t == W.tables[i]
        totalRows == Len(t.data)
        visibleRows == JsSub(t.end, t.start)
        maxScrollableIndex == JsSub(totalRows, visibleRows)
        maxThumbTop == maxThumbTravel(W, i)
    IN IF ~t.rendered \/ totalRows = 0 THEN W
       ELSE IF JsLe(maxScrollableIndex, 0) \/ maxThumbTop <= 0
       THEN setThumbTop(W, i, Px(0, 1))
       ELSE IF isNaN(t.start) \/ isNaN(maxScrollableIndex)
       THEN W   \* "NaNpx" is not a length: the assignment to style.top is dropped
       ELSE IF t.start * maxThumbTop <= 0
       THEN setThumbTop(W, i, Px(0, 1))
       ELSE IF t.start >= maxScrollableIndex
       THEN setThumbTop(W, i, Px(maxThumbTop, 1))
       ELSE setThumbTop(W, i, Px(t.start * maxThumbTop, maxScrollableIndex))

\* every search field of the document is empty (there are none once #table is removed)
G_areSearchInputsEmpty(W) ==
    \A j \in DOMAIN W.dom :
        W.dom[j].present =>
            \A c \in 1..Len(W.dom[j].inputs) : W.dom[j].inputs[c] = << >>

\* the dataset updateVisibleCells draws from
G_activeData(W, i) ==
    IF G_areSearchInputsEmpty(W) THEN W.tables[i].data ELSE W.tables[i].filteredData

\* rewrites the text of the cached cells; no field of the object changes
G_updateVisibleCells(W, i) == [W EXCEPT !.passes[i] = @ + 1]

G_executeSearch(W, i, columnIdxNumber, value) ==
    G_updateVisibleCells(
        [W EXCEPT !.tables[i].filteredData =
            filter(W.tables[i].data, Number(columnIdxNumber), value)], i)

\* y is the pointer's offset below the top of the track
G_updateThumbPosition(W, i, y) ==
    LET t == W.tables[i]
        maxTop == maxThumbTravel(W, i)
        newThumbTop == PxClamp(PxMinus(y, t.dragStartY), maxTop)
        len == Len(t.data)
        \* Math.floor((newThumbTop / maxTop) * len); 0/0 is NaN
        scrollValue == IF maxTop = 0 THEN NaN
                       ELSE IF maxTop < 0 THEN 0
                       ELSE MathFloorDiv(newThumbTop[1] * len, newThumbTop[2] * maxTop)
        W1 == setThumbTop(W, i, newThumbTop)
    IN G_updateVisibleCells(
        IF JsGe(scrollValue, len - t.visibleCount)
        THEN [W1 EXCEPT !.tables[i].start = len - t.visibleCount,
                        !.tables[i].end = len - 1]
        ELSE [W1 EXCEPT !.tables[i].start = scrollValue,
                        !.tables[i].end = JsAdd(scrollValue, t.visibleCount)], i)

\* stopAutoScroll() that drops the handle but leaves the registered callback in place
G_stopAutoScroll_keepsCallback(W, i) ==
    [W EXCEPT !.tables[i].autoScrollId = NULL]

G_stopAutoScroll(W, i) ==
    IF W.tables[i].autoScrollId # NULL
    THEN [cancelAnimationFrame(W, W.tables[i].autoScrollId)
            EXCEPT !.tables[i].autoScrollId = NULL]
    ELSE W

\* one run of the scrollLoop closure; the frame's time is lastScrollTime + lastScrollAge
G_scrollLoop(W, i) ==
    LET W1 == IF W.tables[i].lastScrollAge > G_scrollDelay
              THEN [G_handleScroll(W, i, 1) EXCEPT !.tables[i].lastScrollAge = 0,
                                                   !.stepped[i] = TRUE]
              ELSE W
        t == W1.tables[i]
        maxScrollableIndex == MathMax(0, Len(t.data) - t.visibleCount)
        W2 == requestAnimationFrame(W1, i, "auto")
    IN IF JsLt(t.start, maxScrollableIndex)
       THEN [W2 EXCEPT !.tables[i].autoScrollId = returnedHandle(W2)]
       ELSE G_stopAutoScroll(W1, i)

G_startAutoScroll(W, i) ==
    LET W1 == requestAnimationFrame([W EXCEPT !.tables[i].lastScrollAge = 0], i, "auto")
    IN IF W.tables[i].autoScrollId # NULL THEN W
       ELSE [W1 EXCEPT !.tables[i].autoScrollId = returnedHandle(W1)]

\* the callback handleScroll registers
G_frameUpdate(W, i) ==
    G_syncThumbPositionWithScroll(
        G_updateVisibleCells([W EXCEPT !.tables[i].isFrameUpdateScheduled = FALSE], i), i)

\* replaces the container's markup and appends the cells it wrote to the cache, which
\* is never emptied: renderedCells counts the batches of cells the cache holds, of which
\* only the last is in the document
G_generateAndRenderMarkup(W, i) ==
    [W EXCEPT !.tables[i].renderedCells = @ + 1]

\* adds a mouseup and a mousemove listener to the document (bind() makes new functions)
attachScrollbarEventListeners(W, i) ==
    [W EXCEPT !.dom[i].listeners = @ + 1]

\* the #table elements in the document
G_tablesInDocument(W) ==
    {j \in DOMAIN W.dom : W.tables[j].cls = "GridTable" /\ W.dom[j].present}

\* the new markup takes the place of the old: whoever held the old scrollbar of this
\* container now holds elements outside the document
G_render(W, i, layout) ==
    LET W1 == [G_generateAndRenderMarkup(W, i)
                EXCEPT !.dom[i].present = TRUE,
                       !.dom[i].inputs = [c \in 1..Len(ColumnIds) |-> << >>],
                       !.dom[i].maxTop = layout,
                       !.tables[i].rendered = TRUE,
                       !.tables[i].thumbTop = Px(0, 1)]
        W2 == [W1 EXCEPT !.tables = [k \in DOMAIN W1.tables |->
                    IF k # i /\ W1.tables[k].scrollbar = i
                    THEN [W1.tables[k] EXCEPT !.scrollbar = Detached]
                    ELSE W1.tables[k]]]
    IN attachScrollbarEventListeners(
        [W2 EXCEPT !.tables[i].scrollbar = firstMatch(G_tablesInDocument(W2))], i)

G_loadData(W, i, data) ==
    [W EXCEPT !.tables[i].data = data, !.tables[i].filteredData = data]

\* removes the first #table of the document, whichever instance wrote it
G_destroy(W, i) ==
    LET j == firstMatch(G_tablesInDocument(W))
    IN IF j = NULL THEN W
       ELSE [W EXCEPT !.dom[j].present = FALSE, !.dom[j].inputs = << >>]


(***************************************************************************)
(* CanvasTable (both variants share this windowing code)                   *)
(***************************************************************************)
C_SCROLL_STEP == 3
C_scrollDelay == 2

C_constructor(config) ==
    [cls |-> "CanvasTable", config |-> config,
     data |-> << >>, filteredData |-> << >>,
     start |-> 0, end |-> 0, visibleCount |-> 0,
     isThumbDragging |-> FALSE, dragStartY |-> 0,
     isFrameUpdateScheduled |-> FALSE,
     autoScrollId |-> NULL, lastScrollAge |-> AgeCap,
     isThrottled |-> FALSE, searchTimer |-> NoTimer, dragTimer |-> NoTimer,
     rendered |-> FALSE, scrollbar |-> Detached, thumbTop |-> Px(0, 1), renderedCells |-> 0]

C_calculateVisibleCount(W, i) ==
    [W EXCEPT !.tables[i].visibleCount =
        MathCeilDiv(W.tables[i].config.viewHeight, W.tables[i].config.cellHeight)]

\* this.textCanvas is undefined until render(): its first use throws a TypeError
C_renderTextLayer(W, i) ==
    IF W.tables[i].rendered THEN [W EXCEPT !.passes[i] = @ + 1] ELSE [W EXCEPT !.thrown = TRUE]

\* this.gridCanvas is undefined until render()
C_renderStaticGrid(W, i) == IF W.tables[i].rendered THEN W ELSE [W EXCEPT !.thrown = TRUE]

C_updateVisibleCells(W, i) == C_renderTextLayer(W, i)

\* cell texts are sequences of characters
C_textPadding == 12
Ellipsis == <<".", ".", ".">>

\* text.slice(0, n)
slice(text, n) == SubSeq(text, 1, IF n < Len(text) THEN n ELSE Len(text))

\* Math.max(0, Math.floor(maxTextWidth / avgCharWidth) - 3), the quotient taken exactly;
\* a text of width 0 wider than maxTextWidth < 0 gives the quotient -Infinity
estChars(text, fullWidthPx, maxTextWidth) ==
    IF fullWidthPx = 0 THEN 0
    ELSE MathMax(0, MathFloorDiv(maxTextWidth * Len(text), fullWidthPx) - 3)

\* a truncation that keeps the estimated characters without making room for the dots
displayText_noRoomForDots(text, fullWidthPx, maxTextWidth) ==
    IF fullWidthPx <= maxTextWidth THEN text
    ELSE slice(text, estChars(text, fullWidthPx, maxTextWidth) + 3) \o Ellipsis

\* the string renderTextLayer passes to fillText for one cell
displayText(text, fullWidthPx, maxTextWidth) ==
    IF fullWidthPx <= maxTextWidth THEN text
    ELSE IF estChars(text, fullWidthPx, maxTextWidth) > 0
    THEN slice(text, estChars(text, fullWidthPx, maxTextWidth)) \o Ellipsis
    ELSE Ellipsis

C_syncThumbPositionWithScroll(W, i) ==
    LET t == W.tables[i]
        totalRows == Len(t.data)
        visibleRows == JsSub(t.end, t.start)
        maxScrollable == JsSub(totalRows, visibleRows)
        maxThumbTop == maxThumbTravel(W, i)
    IN IF ~t.rendered \/ totalRows = 0 THEN W
       ELSE IF JsLe(maxScrollable, 0) \/ maxThumbTop <= 0
       THEN [W EXCEPT !.tables[i].thumbTop = Px(0, 1)]
       ELSE IF isNaN(t.start) \/ isNaN(maxScrollable)
       THEN W   \* "NaNpx" is not a length: the assignment to style.top is dropped
       ELSE IF t.start * maxThumbTop <= 0
       THEN [W EXCEPT !.tables[i].thumbTop = Px(0, 1)]
       ELSE IF t.start >= maxScrollable
       THEN [W EXCEPT !.tables[i].thumbTop = Px(maxThumbTop, 1)]
       ELSE [W EXCEPT !.tables[i].thumbTop = Px(t.start * maxThumbTop, maxScrollable)]

C_scrollToRow(W, i, start) ==
    LET t == W.tables[i]
        max == MathMax(0, Len(t.data) - t.visibleCount)
        newStart == MathMax(0, MathMin(start, max))
        W1 == C_updateVisibleCells(
                [W EXCEPT !.tables[i].start = newStart,
                          !.tables[i].end =
                              MathMin(JsAdd(newStart, t.visibleCount), Len(t.data))], i)
    IN IF StrictEq(newStart, t.start) THEN W
       ELSE IF W1.thrown THEN W1
       ELSE C_syncThumbPositionWithScroll(W1, i)

C_handleScrollY(W, i, delta) ==
    C_scrollToRow(W, i, JsAdd(W.tables[i].start,
                              IF delta > 0 THEN C_SCROLL_STEP ELSE -C_SCROLL_STEP))

\* the wheel listener's body
C_onWheel(W, i, e) ==
    LET W1 == C_handleScrollY(W, i, e.deltaY)
    IN IF e.horizontal THEN W
       ELSE IF W1.thrown THEN W1
       ELSE C_syncThumbPositionWithScroll(W1, i)

C_updateThumbPosition(W, i, y) ==
    LET t == W.tables[i]
        maxTop == maxThumbTravel(W, i)
        newTop == PxClamp(PxMinus(y, t.dragStartY), maxTop)
        maxStartRow == Len(t.data) - t.visibleCount
        \* Math.floor((newTop / maxTop) * maxStartRow); 0/0 is NaN
        targetRow == IF maxTop = 0 THEN NaN
                     ELSE IF maxTop < 0 THEN 0
                     ELSE MathFloorDiv(newTop[1] * maxStartRow, newTop[2] * maxTop)
    IN C_scrollToRow([W EXCEPT !.tables[i].thumbTop = newTop], i, targetRow)

\* stopAutoScroll() that drops the handle but leaves the registered callback in place
C_stopAutoScroll_keepsCallback(W, i) ==
    [W EXCEPT !.tables[i].autoScrollId = NULL]

C_stopAutoScroll(W, i) ==
    IF W.tables[i].autoScrollId # NULL
    THEN [cancelAnimationFrame(W, W.tables[i].autoScrollId)
            EXCEPT !.tables[i].autoScrollId = NULL]
    ELSE W

C_loop(W, i) ==
    LET W0 == C_handleScrollY(W, i, C_SCROLL_STEP)
        W1 == IF W.tables[i].lastScrollAge >= C_scrollDelay
              THEN [W0 EXCEPT !.tables[i].lastScrollAge = IF W0.thrown THEN @ ELSE 0,
                              !.stepped[i] = TRUE]
              ELSE W
        t == W1.tables[i]
        maxStart == MathMax(0, Len(t.data) - t.visibleCount)
        W2 == requestAnimationFrame(W1, i, "auto")
    IN IF W1.thrown THEN W1
       ELSE IF JsLt(t.start, maxStart)
       THEN [W2 EXCEPT !.tables[i].autoScrollId = returnedHandle(W2)]
       ELSE C_stopAutoScroll(W1, i)

C_startAutoScroll(W, i) ==
    LET W1 == requestAnimationFrame([W EXCEPT !.tables[i].lastScrollAge = 0], i, "auto")
    IN IF W.tables[i].autoScrollId # NULL THEN W
       ELSE [W1 EXCEPT !.tables[i].autoScrollId = returnedHandle(W1)]

C_loadData(W, i, data) ==
    LET W1 == C_calculateVisibleCount([W EXCEPT !.tables[i].data = data], i)
    IN [W1 EXCEPT !.tables[i].start = 0,
                  !.tables[i].end = MathMin(W1.tables[i].visibleCount, Len(data))]

C_render(W, i, layout) ==
    attachScrollbarEventListeners(
        [W EXCEPT !.dom[i].present = TRUE,
                  !.dom[i].inputs = << >>,
                  !.dom[i].maxTop = layout,
                  !.tables[i].rendered = TRUE,
                  !.tables[i].scrollbar = i,
                  !.tables[i].thumbTop = Px(0, 1)], i)

C_resize(W, i, height) ==
    LET W1 == C_calculateVisibleCount([W EXCEPT !.tables[i].config.viewHeight = height], i)
        W2 == C_scrollToRow(W1, i, W1.tables[i].start)
        W3 == C_renderStaticGrid(W2, i)
        W4 == C_renderTextLayer(W3, i)
    IN IF W2.thrown THEN W2
       ELSE IF W3.thrown THEN W3
       ELSE IF W4.thrown THEN W4
       ELSE C_syncThumbPositionWithScroll(W4, i)

\* the .canvas-table-wrapper elements in the document
C_wrappersInDocument(W) ==
    {j \in DOMAIN W.dom : W.tables[j].cls = "CanvasTable" /\ W.dom[j].present}

\* removes the first .canvas-table-wrapper of the document, whichever instance wrote it
C_destroy(W, i) ==
    LET j == firstMatch(C_wrappersInDocument(W))
    IN IF j = NULL THEN W ELSE [W EXCEPT !.dom[j].present = FALSE]


(***************************************************************************)
(* CanvasTable, the original variant (without the device-pixel-ratio       *)
(* correction of the canvases)                                             *)
(***************************************************************************)
O_SCROLL_STEP == 3
O_scrollDelay == 2

O_constructor(config) ==
    [cls |-> "CanvasTableOriginal", config |-> config,
     data |-> << >>, filteredData |-> << >>,
     start |-> 0, end |-> 0, visibleCount |-> 0,
     isThumbDragging |-> FALSE, dragStartY |-> 0,
     isFrameUpdateScheduled |-> FALSE,
     autoScrollId |-> NULL, lastScrollAge |-> AgeCap,
     isThrottled |-> FALSE, searchTimer |-> NoTimer, dragTimer |-> NoTimer,
     rendered |-> FALSE, scrollbar |-> Detached, thumbTop |-> Px(0, 1), renderedCells |-> 0]

O_calculateVisibleCount(W, i) ==
    [W EXCEPT !.tables[i].visibleCount =
        MathCeilDiv(W.tables[i].config.viewHeight, W.tables[i].config.cellHeight)]

\* this.textCanvas.width = fullWidth: textCanvas is undefined until render()
O_sizeTextCanvas(W, i) == IF W.tables[i].rendered THEN W ELSE [W EXCEPT !.thrown = TRUE]

O_renderTextLayer(W, i) ==
    IF W.tables[i].rendered THEN [W EXCEPT !.passes[i] = @ + 1] ELSE [W EXCEPT !.thrown = TRUE]

\* this.gridCanvas is undefined until render()
O_renderStaticGrid(W, i) == IF W.tables[i].rendered THEN W ELSE [W EXCEPT !.thrown = TRUE]

O_updateVisibleCells(W, i) == O_renderTextLayer(W, i)

O_syncThumbPositionWithScroll(W, i) ==
    LET t == W.tables[i]
        totalRows == Len(t.data)
        visibleRows == JsSub(t.end, t.start)
        maxScrollable == JsSub(totalRows, visibleRows)
        maxThumbTop == maxThumbTravel(W, i)
    IN IF ~t.rendered \/ totalRows = 0 THEN W
       ELSE IF JsLe(maxScrollable, 0) \/ maxThumbTop <= 0
       THEN [W EXCEPT !.tables[i].thumbTop = Px(0, 1)]
       ELSE IF isNaN(t.start) \/ isNaN(maxScrollable)
       THEN W   \* "NaNpx" is not a length: the assignment to style.top is dropped
       ELSE IF t.start * maxThumbTop <= 0
       THEN [W EXCEPT !.tables[i].thumbTop = Px(0, 1)]
       ELSE IF t.start >= maxScrollable
       THEN [W EXCEPT !.tables[i].thumbTop = Px(maxThumbTop, 1)]
       ELSE [W EXCEPT !.tables[i].thumbTop = Px(t.start * maxThumbTop, maxScrollable)]

O_scrollToRow(W, i, start) ==
    LET t == W.tables[i]
        max == MathMax(0, Len(t.data) - t.visibleCount)
        newStart == MathMax(0, MathMin(start, max))
        W1 == O_updateVisibleCells(
                [W EXCEPT !.tables[i].start = newStart,
                          !.tables[i].end =
                              MathMin(JsAdd(newStart, t.visibleCount), Len(t.data))], i)
    IN IF StrictEq(newStart, t.start) THEN W
       ELSE IF W1.thrown THEN W1
       ELSE O_syncThumbPositionWithScroll(W1, i)

O_handleScrollY(W, i, delta) ==
    O_scrollToRow(W, i, JsAdd(W.tables[i].start,
                              IF delta > 0 THEN O_SCROLL_STEP ELSE -O_SCROLL_STEP))

\* the wheel listener's body
O_onWheel(W, i, e) ==
    LET W1 == O_handleScrollY(W, i, e.deltaY)
    IN IF e.horizontal THEN W
       ELSE IF W1.thrown THEN W1
       ELSE O_syncThumbPositionWithScroll(W1, i)

O_updateThumbPosition(W, i, y) ==
    LET t == W.tables[i]
        maxTop == maxThumbTravel(W, i)
        newTop == PxClamp(PxMinus(y, t.dragStartY), maxTop)
        maxStartRow == Len(t.data) - t.visibleCount
        \* Math.floor((newTop / maxTop) * maxStartRow); 0/0 is NaN
        targetRow == IF maxTop = 0 THEN NaN
                     ELSE IF maxTop < 0 THEN 0
                     ELSE MathFloorDiv(newTop[1] * maxStartRow, newTop[2] * maxTop)
    IN O_scrollToRow([W EXCEPT !.tables[i].thumbTop = newTop], i, targetRow)

O_stopAutoScroll(W, i) ==
    IF W.tables[i].autoScrollId # NULL
    THEN [cancelAnimationFrame(W, W.tables[i].autoScrollId)
            EXCEPT !.tables[i].autoScrollId = NULL]
    ELSE W

O_loop(W, i) ==
    LET W0 == O_handleScrollY(W, i, O_SCROLL_STEP)
        W1 == IF W.tables[i].lastScrollAge >= O_scrollDelay
              THEN [W0 EXCEPT !.tables[i].lastScrollAge = IF W0.thrown THEN @ ELSE 0,
                              !.stepped[i] = TRUE]
              ELSE W
        t == W1.tables[i]
        maxStart == MathMax(0, Len(t.data) - t.visibleCount)
        W2 == requestAnimationFrame(W1, i, "auto")
    IN IF W1.thrown THEN W1
       ELSE IF JsLt(t.start, maxStart)
       THEN [W2 EXCEPT !.tables[i].autoScrollId = returnedHandle(W2)]
       ELSE O_stopAutoScroll(W1, i)

O_startAutoScroll(W, i) ==
    LET W1 == requestAnimationFrame([W EXCEPT !.tables[i].lastScrollAge = 0], i, "auto")
    IN IF W.tables[i].autoScrollId # NULL THEN W
       ELSE [W1 EXCEPT !.tables[i].autoScrollId = returnedHandle(W1)]

O_loadData(W, i, data) ==
    LET W1 == O_calculateVisibleCount([W EXCEPT !.tables[i].data = data], i)
    IN [W1 EXCEPT !.tables[i].start = 0,
                  !.tables[i].end = MathMin(W1.tables[i].visibleCount, Len(data))]

O_render(W, i, layout) ==
    attachScrollbarEventListeners(
        [W EXCEPT !.dom[i].present = TRUE,
                  !.dom[i].inputs = << >>,
                  !.dom[i].maxTop = layout,
                  !.tables[i].rendered = TRUE,
                  !.tables[i].scrollbar = i,
                  !.tables[i].thumbTop = Px(0, 1)], i)

\* resize() that re-clamps the window before it has recomputed visibleCount
O_resize_beforeRecount(W, i, height) ==
    LET W1 == O_scrollToRow([W EXCEPT !.tables[i].config.viewHeight = height], i,
                            W.tables[i].start)
        W2 == O_calculateVisibleCount(W1, i)
        W3 == O_renderStaticGrid(O_sizeTextCanvas(W2, i), i)
        W4 == O_renderTextLayer(W3, i)
    IN IF W1.thrown THEN W1
       ELSE IF W3.thrown THEN W3
       ELSE IF W4.thrown THEN W4
       ELSE O_syncThumbPositionWithScroll(W4, i)

O_resize(W, i, height) ==
    LET W1 == O_calculateVisibleCount([W EXCEPT !.tables[i].config.viewHeight = height], i)
        W2 == O_scrollToRow(W1, i, W1.tables[i].start)
        W2a == O_sizeTextCanvas(W2, i)
        W3 == O_renderStaticGrid(W2a, i)
        W4 == O_renderTextLayer(W3, i)
    IN IF W2.thrown THEN W2
       ELSE IF W2a.thrown THEN W2a
       ELSE IF W3.thrown THEN W3
       ELSE IF W4.thrown THEN W4
       ELSE O_syncThumbPositionWithScroll(W4, i)


(***************************************************************************)
(* The browser: frames and timers                                          *)
(***************************************************************************)
isGrid(i) == tables[i].cls = "GridTable"
isCanvas(i) == tables[i].cls = "CanvasTable"

\* one registered frame callback runs; an exception ends that callback only
runCallback(W, cb) ==
    LET W0 == [W EXCEPT !.thrown = FALSE]
        R == IF cb.kind = "render" THEN G_frameUpdate(W0, cb.inst)
             ELSE IF W.tables[cb.inst].cls = "GridTable" THEN G_scrollLoop(W0, cb.inst)
             ELSE IF W.tables[cb.inst].cls = "CanvasTable" THEN C_loop(W0, cb.inst)
             ELSE O_loop(W0, cb.inst)
    IN [R EXCEPT !.thrown = R.thrown \/ W.thrown]

RECURSIVE runCallbacks(_, _)
runCallbacks(W, batch) ==
    IF batch = << >> THEN W
    ELSE runCallbacks(runCallback(W, Head(batch)), Tail(batch))

\* time moves on by dt since the previous frame (or since the loop was started)
advanceTime(W, dt) ==
    [W EXCEPT !.tables = [i \in DOMAIN W.tables |->
        [W.tables[i] EXCEPT !.lastScrollAge =
            IF @ + dt > AgeCap THEN AgeCap ELSE @ + dt]]]

\* stopAutoScroll() took the machine from Running to Stopped in this step
haltsIn(W) ==
    [i \in DOMAIN tables |->
        IF tables[i].autoScrollId # NULL /\ W.tables[i].autoScrollId = NULL
        THEN TRUE ELSE halted[i]]

\* a display frame: the callbacks registered before it run in registration order
FrameResult(dt) == runCallbacks(advanceTime([World EXCEPT !.raf = << >>], dt), raf)

Frame(dt) ==
    /\ raf # << >>
    /\ LET W == FrameResult(dt)
       IN Apply(W) /\ halted' = haltsIn(W)
    /\ tick' = ~tick
    /\ UNCHANGED quiet

\* the 16 ms timer of throttle() fires
ThrottleTimer(i) ==
    /\ tables[i].isThrottled
    /\ Apply([World EXCEPT !.tables[i].isThrottled = FALSE])
    /\ UNCHANGED <<halted, quiet, tick>>

\* the 5 ms timer of the debounced pointer-move handler fires
DragTimerResult(i) ==
    LET y == tables[i].dragTimer[1]
        W == [World EXCEPT !.tables[i].dragTimer = Tail(@)]
    IN IF isGrid(i) THEN G_updateThumbPosition(W, i, y)
       ELSE IF ~tables[i].isThumbDragging THEN W
       ELSE C_updateThumbPosition(W, i, y)

DragTimer(i) ==
    /\ tables[i].dragTimer # NoTimer
    /\ Apply(DragTimerResult(i))
    /\ UNCHANGED <<halted, quiet, tick>>

\* the 300 ms timer of debouncedSearchHandler fires
SearchTimerResult(i) ==
    LET a == tables[i].searchTimer[1]
        W == [World EXCEPT !.tables[i].searchTimer = Tail(@)]
    IN G_executeSearch(W, i, a.columnId, a.value)

SearchTimer(i) ==
    /\ tables[i].searchTimer # NoTimer
    /\ Apply(SearchTimerResult(i))
    /\ UNCHANGED <<halted, quiet, tick>>

(***************************************************************************)
(* Input events                                                            *)
(***************************************************************************)
belowCap(i) == isNaN(tables[i].start) \/ tables[i].start < MaxStart

\* throttle() that hands every call on to the handler, armed or not
WheelResult_ignoresThrottle(i, e) ==
    LET W == IF isGrid(i)
             THEN IF e.deltaY # 0 THEN G_handleScroll(World, i, e.deltaY) ELSE World
             ELSE C_onWheel(World, i, e)
    IN IF W.thrown THEN W ELSE [W EXCEPT !.tables[i].isThrottled = TRUE]

\* a wheel event on the container, through throttle(); e = [deltaY, horizontal]
WheelResult(i, e) ==
    LET W == IF isGrid(i)
             THEN IF e.deltaY # 0 THEN G_handleScroll(World, i, e.deltaY) ELSE World
             ELSE C_onWheel(World, i, e)
    IN IF tables[i].isThrottled THEN World
       ELSE IF W.thrown THEN W
       ELSE [W EXCEPT !.tables[i].isThrottled = TRUE]

Wheel(i, e) ==
    /\ ~quiet
    /\ (isGrid(i) /\ e.deltaY > 0) => belowCap(i)
    /\ Apply(WheelResult(i, e))
    /\ UNCHANGED <<halted, quiet, tick>>

\* mousedown on the thumb, `offset` pixels below the thumb's top edge
\* every instance that holds this thumb has a mousedown listener on it
ThumbMouseDown(i, offset) ==
    /\ ~quiet
    /\ tables[i].rendered /\ dom[i].present
    /\ Apply([World EXCEPT !.tables = [k \in DOMAIN tables |->
                IF tables[k].rendered /\ tables[k].scrollbar = i
                THEN [tables[k] EXCEPT !.isThumbDragging = TRUE, !.dragStartY = offset]
                ELSE tables[k]]])
    /\ UNCHANGED <<halted, quiet, tick>>

\* mouseup anywhere in the document (the listener is added by render())
MouseUp(i) ==
    /\ ~quiet
    /\ tables[i].rendered
    /\ Apply([World EXCEPT !.tables[i].isThumbDragging = FALSE])
    /\ UNCHANGED <<halted, quiet, tick>>

\* mousemove anywhere in the document, y pixels below the track's top edge
MouseMove(i, y) ==
    /\ ~quiet
    /\ tables[i].rendered
    /\ IF isGrid(i) /\ ~tables[i].isThumbDragging THEN Apply(World)
       ELSE Apply([World EXCEPT !.tables[i].dragTimer = debounce(@, Px(y, 1))])
    /\ UNCHANGED <<halted, quiet, tick>>

\* mousemove during a drag with the pointer still on the spot of the thumb it pressed
MouseMoveInPlace(i) ==
    /\ ~quiet
    /\ tables[i].rendered /\ tables[i].isThumbDragging
    /\ Apply([World EXCEPT !.tables[i].dragTimer =
                debounce(@, PxMinus(boundThumbTop(World, i), -tables[i].dragStartY))])
    /\ UNCHANGED <<halted, quiet, tick>>

\* the user edits the search field of column c
SearchInput(i, c, q) ==
    /\ ~quiet
    /\ isGrid(i) /\ tables[i].rendered /\ dom[i].present
    /\ dom[i].inputs[c] # q
    /\ Apply([World EXCEPT !.dom[i].inputs[c] = q,
                           !.tables[i].searchTimer =
                                debounce(@, [columnId |-> ColumnIds[c], value |-> q])])
    /\ UNCHANGED <<halted, quiet, tick>>

(***************************************************************************)
(* Public operations                                                       *)
(***************************************************************************)
LoadData(i, n) ==
    /\ ~quiet
    /\ Apply(IF isGrid(i) THEN G_loadData(World, i, DataOf(n))
             ELSE C_loadData(World, i, DataOf(n)))
    /\ UNCHANGED <<halted, quiet, tick>>

Render(i, layout) ==
    /\ ~quiet
    /\ dom[i].listeners < MaxRenders
    /\ Apply(IF isGrid(i) THEN G_render(World, i, layout) ELSE C_render(World, i, layout))
    /\ UNCHANGED <<halted, quiet, tick>>

Resize(i, height) ==
    /\ ~quiet
    /\ isCanvas(i)
    /\ Apply(C_resize(World, i, height))
    /\ UNCHANGED <<halted, quiet, tick>>

StartAutoScroll(i) ==
    /\ ~quiet
    /\ isGrid(i) => belowCap(i)
    /\ Apply(IF isGrid(i) THEN G_startAutoScroll(World, i) ELSE C_startAutoScroll(World, i))
    /\ halted' = [halted EXCEPT ![i] = IF tables[i].autoScrollId = NULL THEN FALSE ELSE @]
    /\ UNCHANGED <<quiet, tick>>

StopAutoScroll(i) ==
    /\ ~quiet
    /\ LET W == IF isGrid(i) THEN G_stopAutoScroll(World, i) ELSE C_stopAutoScroll(World, i)
       IN Apply(W) /\ halted' = haltsIn(W)
    /\ UNCHANGED <<quiet, tick>>

Destroy(i) ==
    /\ ~quiet
    /\ Apply(IF isGrid(i) THEN G_destroy(World, i) ELSE C_destroy(World, i))
    /\ UNCHANGED <<halted, quiet, tick>>

\* renderTextLayer draws one cell whose text measures fullWidthPx in the canvas font
DrawCellText(i, text, fullWidthPx, cellWidth) ==
    /\ isCanvas(i) /\ tables[i].rendered
    /\ IF text = << >> THEN UNCHANGED textLayer
       ELSE textLayer' = [text |-> text, fullWidthPx |-> fullWidthPx, cellWidth |-> cellWidth,
                          drawn |-> displayText(text, fullWidthPx, cellWidth - C_textPadding)]
    /\ UNCHANGED <<tables, raf, dom, fault, halted, stepped, quiet, tick, app>>

\* from here on no input arrives: only frames and timers run
Quiesce ==
    /\ ~quiet
    /\ quiet' = TRUE
    /\ stepped' = [i \in DOMAIN tables |-> FALSE]
    /\ UNCHANGED <<tables, raf, dom, fault, halted, tick, textLayer, app>>

(***************************************************************************)
(* The two CanvasTable variants side by side, each over its own container, *)
(* with every event delivered to both                                      *)
(***************************************************************************)
DprFixed == 1
Original == 2

\* an event reaches the listener of the one, then the listener of the other: the second
\* runs whether or not the first threw, and the step faults if either did
afterFirst(W1) == [W1 EXCEPT !.thrown = FALSE]
afterBoth(W1, W2) == [W2 EXCEPT !.thrown = W1.thrown \/ W2.thrown]

\* throttle(): R is what the wrapped handler makes of W
throttle(W, i, R) ==
    IF W.tables[i].isThrottled THEN W
    ELSE IF R.thrown THEN R
    ELSE [R EXCEPT !.tables[i].isThrottled = TRUE]

\* the debounced pointer-move handler of instance i when its timer fires
C_onMouseMove(W, i) ==
    LET W1 == [W EXCEPT !.tables[i].dragTimer = Tail(@)]
    IN IF W.tables[i].dragTimer = NoTimer THEN W
       ELSE IF ~W.tables[i].isThumbDragging THEN W1
       ELSE C_updateThumbPosition(W1, i, W.tables[i].dragTimer[1])

O_onMouseMove(W, i) ==
    LET W1 == [W EXCEPT !.tables[i].dragTimer = Tail(@)]
    IN IF W.tables[i].dragTimer = NoTimer THEN W
       ELSE IF ~W.tables[i].isThumbDragging THEN W1
       ELSE O_updateThumbPosition(W1, i, W.tables[i].dragTimer[1])

PairLoadData(n) ==
    /\ LET W1 == C_loadData(World, DprFixed, DataOf(n))
           W2 == O_loadData(afterFirst(W1), Original, DataOf(n))
       IN Apply(afterBoth(W1, W2))
    /\ UNCHANGED <<halted, quiet, tick>>

PairRender(layout) ==
    /\ ~tables[DprFixed].rendered /\ ~tables[Original].rendered
    /\ LET W1 == C_render(World, DprFixed, layout)
           W2 == O_render(afterFirst(W1), Original, layout)
       IN Apply(afterBoth(W1, W2))
    /\ UNCHANGED <<halted, quiet, tick>>

PairResize(height) ==
    /\ LET W1 == C_resize(World, DprFixed, height)
           W2 == O_resize(afterFirst(W1), Original, height)
       IN Apply(afterBoth(W1, W2))
    /\ UNCHANGED <<halted, quiet, tick>>

PairWheel(e) ==
    /\ LET W1 == throttle(World, DprFixed, C_onWheel(World, DprFixed, e))
           W2 == throttle(afterFirst(W1), Original, O_onWheel(afterFirst(W1), Original, e))
       IN Apply(afterBoth(W1, W2))
    /\ UNCHANGED <<halted, quiet, tick>>

\* both throttles were armed by the same event, so their timers fire together
PairThrottleTimer ==
    /\ tables[DprFixed].isThrottled \/ tables[Original].isThrottled
    /\ Apply([World EXCEPT !.tables[DprFixed].isThrottled = FALSE,
                           !.tables[Original].isThrottled = FALSE])
    /\ UNCHANGED <<halted, quiet, tick>>

PairThumbMouseDown(offset) ==
    /\ tables[DprFixed].rendered /\ tables[Original].rendered
    /\ Apply([World EXCEPT !.tables[DprFixed].isThumbDragging = TRUE,
                           !.tables[DprFixed].dragStartY = offset,
                           !.tables[Original].isThumbDragging = TRUE,
                           !.tables[Original].dragStartY = offset])
    /\ UNCHANGED <<halted, quiet, tick>>

PairMouseUp ==
    /\ tables[DprFixed].rendered /\ tables[Original].rendered
    /\ Apply([World EXCEPT !.tables[DprFixed].isThumbDragging = FALSE,
                           !.tables[Original].isThumbDragging = FALSE])
    /\ UNCHANGED <<halted, quiet, tick>>

PairMouseMove(y) ==
    /\ tables[DprFixed].rendered /\ tables[Original].rendered
    /\ Apply([World EXCEPT !.tables[DprFixed].dragTimer = debounce(@, Px(y, 1)),
                           !.tables[Original].dragTimer = debounce(@, Px(y, 1))])
    /\ UNCHANGED <<halted, quiet, tick>>

PairDragTimer ==
    /\ tables[DprFixed].dragTimer # NoTimer \/ tables[Original].dragTimer # NoTimer
    /\ LET W1 == C_onMouseMove(World, DprFixed)
           W2 == O_onMouseMove(afterFirst(W1), Original)
       IN Apply(afterBoth(W1, W2))
    /\ UNCHANGED <<halted, quiet, tick>>

PairStartAutoScroll ==
    /\ LET W1 == C_startAutoScroll(World, DprFixed)
           W2 == O_startAutoScroll(afterFirst(W1), Original)
       IN Apply(afterBoth(W1, W2))
    /\ UNCHANGED <<halted, quiet, tick>>

PairStopAutoScroll ==
    /\ LET W1 == C_stopAutoScroll(World, DprFixed)
           W2 == O_stopAutoScroll(afterFirst(W1), Original)
       IN Apply(afterBoth(W1, W2)) /\ halted' = haltsIn(W2)
    /\ UNCHANGED <<quiet, tick>>

(***************************************************************************)
(* The application around one GridTable at a time                          *)
(***************************************************************************)
\* the click listener of the close button
A_onCloseClick(W) ==
    LET W1 == IF W.app.gridTable # NULL
              THEN [G_destroy(W, W.app.gridTable) EXCEPT !.app.gridTable = NULL]
              ELSE W
    IN [W1 EXCEPT !.app.view = "upload"]

\* the click listener of the auto-scroll button
A_onAutoScrollClick(W) ==
    LET g == W.app.gridTable
    IN IF g = NULL THEN W
       ELSE IF ~W.app.startScrolling
       THEN [G_startAutoScroll(W, g) EXCEPT !.app.startScrolling = TRUE]
       ELSE [G_stopAutoScroll(W, g) EXCEPT !.app.startScrolling = FALSE]

\* Papa.parse's complete callback: a new GridTable object over the same container takes
\* the place of the one the app held
A_complete(W, data, layout) ==
    LET k == W.app.opened + 1
        W1 == [W EXCEPT !.tables[k] = G_constructor(W.tables[k].config),
                        !.app.gridTable = k, !.app.opened = k, !.app.view = "grid"]
        W2 == G_render(G_loadData(W1, k, data), k, layout)
    IN IF W.app.startScrolling THEN G_startAutoScroll(W2, k) ELSE W2

AppCloseClick ==
    /\ ~quiet
    /\ app.view = "grid"
    /\ Apply(A_onCloseClick(World))
    /\ UNCHANGED <<halted, quiet, tick>>

AppAutoScrollClick ==
    /\ ~quiet
    /\ (app.gridTable # NULL /\ ~app.startScrolling) => belowCap(app.gridTable)
    /\ LET W == A_onAutoScrollClick(World)
       IN Apply(W) /\ halted' = haltsIn(W)
    /\ UNCHANGED <<quiet, tick>>

\* the user picks a file in the upload view and its parse completes with n data rows
AppFileLoaded(n, layout) ==
    /\ ~quiet
    /\ app.view = "upload"
    /\ app.opened < Cardinality(DOMAIN tables)
    /\ Apply(A_complete(World, DataOf(n), layout))
    /\ UNCHANGED <<halted, quiet, tick>>

(***************************************************************************)
(* Specifications                                                          *)
(***************************************************************************)
WheelEvents == {[deltaY |-> d, horizontal |-> h] : d \in DeltaYs, h \in BOOLEAN}

construct(cls, config) ==
    IF cls = "GridTable" THEN G_constructor(config) ELSE C_constructor(config)

\* the closure of App() once it has run: no grid, the toggle off, the upload view shown;
\* opened counts the GridTable objects the app has constructed so far
A_App == [gridTable |-> NULL, startScrolling |-> FALSE, view |-> "upload", opened |-> 0]

\* `ids` instances of one class, constructed over empty containers of one document
InitFor(ids, classes) ==
    /\ \E cls \in classes, config \in Configs :
            tables = [i \in ids |-> construct(cls, config)]
    /\ raf = << >>
    /\ dom = [i \in ids |->
                [present |-> FALSE, inputs |-> << >>, maxTop |-> 0, listeners |-> 0]]
    /\ fault = FALSE
    /\ halted = [i \in ids |-> FALSE]
    /\ stepped = [i \in ids |-> FALSE]
    /\ quiet = FALSE
    /\ tick = FALSE
    /\ textLayer = << >>
    /\ app = A_App

InitOf(classes) == InitFor(OneInstance, classes)

Init == InitOf(Classes)

Next ==
    \/ \E dt \in FrameDts : Frame(dt)
    \/ \E i \in Instances : ThrottleTimer(i)
    \/ \E i \in Instances : DragTimer(i)
    \/ \E i \in Instances : SearchTimer(i)
    \/ \E i \in Instances, e \in WheelEvents : Wheel(i, e)
    \/ \E i \in Instances, o \in DragOffsets : ThumbMouseDown(i, o)
    \/ \E i \in Instances : MouseUp(i)
    \/ \E i \in Instances, y \in MouseYs : MouseMove(i, y)
    \/ \E i \in Instances, c \in 1..Len(ColumnIds), q \in Queries : SearchInput(i, c, q)
    \/ \E i \in Instances, n \in DataLens : LoadData(i, n)
    \/ \E i \in Instances, m \in MaxTops : Render(i, m)
    \/ \E i \in Instances, h \in ViewHeights : Resize(i, h)
    \/ \E i \in Instances : StartAutoScroll(i)
    \/ \E i \in Instances : StopAutoScroll(i)
    \/ \E i \in Instances : Destroy(i)

Spec == Init /\ [][Next]_vars


(***************************************************************************)
(* The parts of Spec the properties are checked under.  Each keeps the     *)
(* operations one group of properties is about and draws its datasets from *)
(* its own set of lengths.                                                 *)
(***************************************************************************)
ScrollLens == {3, 11}
AutoLens == {3, 10, 11}
ResizeLens == {3, 11}
SearchLens == {3}
LifeLens == {11}

\* the first render() of an instance
FirstRender(i, layout) == ~tables[i].rendered /\ Render(i, layout)

FrameStep == \E dt \in FrameDts : Frame(dt)

WheelSteps ==
    \/ \E i \in Instances, e \in WheelEvents : Wheel(i, e)
    \/ \E i \in Instances : ThrottleTimer(i)

DragSteps ==
    \/ \E i \in Instances, o \in DragOffsets : ThumbMouseDown(i, o)
    \/ \E i \in Instances : MouseUp(i)
    \/ \E i \in Instances, y \in MouseYs : MouseMove(i, y)
    \/ \E i \in Instances : DragTimer(i)

AutoSteps ==
    \/ \E i \in Instances : StartAutoScroll(i)
    \/ \E i \in Instances : StopAutoScroll(i)

\* wheel and indicator drag
NextScroll ==
    \/ FrameStep
    \/ WheelSteps
    \/ DragSteps
    \/ \E i \in Instances, n \in ScrollLens : LoadData(i, n)
    \/ \E i \in Instances, m \in MaxTops : FirstRender(i, m)

SpecScroll == InitOf(Classes) /\ [][NextScroll]_vars

\* wheel and auto-scroll
NextAuto ==
    \/ FrameStep
    \/ WheelSteps
    \/ AutoSteps
    \/ \E i \in Instances, n \in AutoLens : LoadData(i, n)
    \/ \E i \in Instances, m \in MaxTops : FirstRender(i, m)

SpecAuto == InitOf(Classes) /\ [][NextAuto]_vars

\* auto-scroll left to run: the browser keeps delivering frames
NextAutoFair == NextAuto \/ Quiesce

\* a frame is due whenever a callback is pending; tick makes every frame a visible step
FrameRuns == raf # << >> /\ tick' = ~tick

SpecAutoFair == InitOf(Classes) /\ [][NextAutoFair]_vars /\ WF_tick(FrameRuns)

\* CanvasTable under resize
NextResize ==
    \/ WheelSteps
    \/ DragSteps
    \/ \E i \in Instances, h \in ViewHeights : Resize(i, h)
    \/ \E i \in Instances, n \in ResizeLens : LoadData(i, n)
    \/ \E i \in Instances, m \in MaxTops : FirstRender(i, m)

SpecResize == InitOf({"CanvasTable"}) /\ [][NextResize]_vars

\* GridTable's search fields
NextSearch ==
    \/ FrameStep
    \/ WheelSteps
    \/ \E i \in Instances : SearchTimer(i)
    \/ \E i \in Instances, c \in 1..Len(ColumnIds), q \in Queries : SearchInput(i, c, q)
    \/ \E i \in Instances, n \in SearchLens : LoadData(i, n)
    \/ \E i \in Instances, m \in MaxTops : FirstRender(i, m)

SpecSearch == InitOf({"GridTable"}) /\ [][NextSearch]_vars

\* teardown
NextLife ==
    \/ FrameStep
    \/ WheelSteps
    \/ DragSteps
    \/ AutoSteps
    \/ \E i \in Instances : Destroy(i)
    \/ \E i \in Instances, n \in LifeLens : LoadData(i, n)
    \/ \E i \in Instances, m \in MaxTops : FirstRender(i, m)

SpecLife == InitOf(Classes) /\ [][NextLife]_vars


\* render() called again and again, between loads, drags and destroy()
RenderLens == {3, 11}

NextRender ==
    \/ DragSteps
    \/ \E i \in Instances : Destroy(i)
    \/ \E i \in Instances, n \in RenderLens : LoadData(i, n)
    \/ \E i \in Instances, m \in MaxTops : Render(i, m)

SpecRender == InitOf(Classes) /\ [][NextRender]_vars

\* scrolling and dragging, with pointer moves that keep the thumb where it is
DragLens == {11}

NextDrag ==
    \/ FrameStep
    \/ WheelSteps
    \/ DragSteps
    \/ \E i \in Instances : MouseMoveInPlace(i)
    \/ \E i \in Instances, n \in DragLens : LoadData(i, n)
    \/ \E i \in Instances, m \in MaxTops : FirstRender(i, m)

SpecDrag == InitOf(Classes) /\ [][NextDrag]_vars

\* the public operations in any order, with the frames they schedule
ApiLens == {0, 3, 11}

PublicOperation ==
    \/ \E i \in Instances, n \in ApiLens : LoadData(i, n)
    \/ \E i \in Instances, m \in MaxTops : Render(i, m)
    \/ \E i \in Instances, h \in ViewHeights : Resize(i, h)
    \/ \E i \in Instances : StartAutoScroll(i)
    \/ \E i \in Instances : StopAutoScroll(i)
    \/ \E i \in Instances : Destroy(i)

NextApi == FrameStep \/ PublicOperation

SpecApi == InitOf(Classes) /\ [][NextApi]_vars

\* scroll requests from the wheel and from the auto-scroll loop, between frames
FrameLens == {11}

NextFrame ==
    \/ FrameStep
    \/ WheelSteps
    \/ AutoSteps
    \/ \E i \in Instances, n \in FrameLens : LoadData(i, n)
    \/ \E i \in Instances, m \in MaxTops : FirstRender(i, m)

SpecFrame == InitOf(Classes) /\ [][NextFrame]_vars

\* every source of window and content changes at once: wheel, drag, search, auto-scroll
InputLens == {11}
InputQueries == {<<"a">>}
InputYs == {3}

NextInput ==
    \/ FrameStep
    \/ \E i \in Instances, e \in WheelEvents : Wheel(i, e)
    \/ \E i \in Instances : ThrottleTimer(i)
    \/ \E i \in Instances, o \in DragOffsets : ThumbMouseDown(i, o)
    \/ \E i \in Instances, y \in InputYs : MouseMove(i, y)
    \/ \E i \in Instances : DragTimer(i)
    \/ \E i \in Instances : StartAutoScroll(i)
    \/ \E i \in Instances : SearchTimer(i)
    \/ \E i \in Instances, q \in InputQueries : SearchInput(i, 1, q)
    \/ \E i \in Instances, n \in InputLens : LoadData(i, n)
    \/ \E i \in Instances, m \in MaxTops : FirstRender(i, m)

SpecInput == InitOf(Classes) /\ [][NextInput]_vars

\* short and empty datasets, and a thumb as tall as its track
DegenerateLens == {0, 3, 11}
DegenerateTops == {0, 4}

NextDegenerate ==
    \/ FrameStep
    \/ WheelSteps
    \/ \E i \in Instances, o \in DragOffsets : ThumbMouseDown(i, o)
    \/ \E i \in Instances, y \in InputYs : MouseMove(i, y)
    \/ \E i \in Instances : DragTimer(i)
    \/ \E i \in Instances, n \in DegenerateLens : LoadData(i, n)
    \/ \E i \in Instances, m \in DegenerateTops : FirstRender(i, m)

SpecDegenerate == InitOf(Classes) /\ [][NextDegenerate]_vars

\* bursts of pointer moves and of search edits
DebounceLens == {3}
DebounceQueries == {<< >>, <<"a">>, <<"z">>}

NextDebounce ==
    \/ DragSteps
    \/ \E i \in Instances : SearchTimer(i)
    \/ \E i \in Instances, c \in 1..Len(ColumnIds), q \in DebounceQueries :
            SearchInput(i, c, q)
    \/ \E i \in Instances, n \in DebounceLens : LoadData(i, n)
    \/ \E i \in Instances, m \in MaxTops : FirstRender(i, m)

SpecDebounce == InitOf(Classes) /\ [][NextDebounce]_vars

\* the application: files opened and closed one after the other, the auto-scroll button
AppLens == {3, 11}

NextApp ==
    \/ FrameStep
    \/ AppAutoScrollClick
    \/ AppCloseClick
    \/ \E n \in AppLens, m \in MaxTops : AppFileLoaded(n, m)

SpecApp == InitFor(TwoInstances, {"GridTable"}) /\ [][NextApp]_vars

\* the two CanvasTable variants under one sequence of events
VariantLens == {3, 11}
VariantYs == {0, 3}

InitVariants ==
    /\ \E config \in Configs :
            tables = [i \in {DprFixed, Original} |->
                        IF i = DprFixed THEN C_constructor(config) ELSE O_constructor(config)]
    /\ raf = << >>
    /\ dom = [i \in {DprFixed, Original} |->
                [present |-> FALSE, inputs |-> << >>, maxTop |-> 0, listeners |-> 0]]
    /\ fault = FALSE
    /\ halted = [i \in {DprFixed, Original} |-> FALSE]
    /\ stepped = [i \in {DprFixed, Original} |-> FALSE]
    /\ quiet = FALSE
    /\ tick = FALSE
    /\ textLayer = << >>
    /\ app = A_App

NextVariants ==
    \/ FrameStep
    \/ \E n \in VariantLens : PairLoadData(n)
    \/ \E m \in MaxTops : PairRender(m)
    \/ \E h \in ViewHeights : PairResize(h)
    \/ \E e \in WheelEvents : PairWheel(e)
    \/ PairThrottleTimer
    \/ \E o \in DragOffsets : PairThumbMouseDown(o)
    \/ PairMouseUp
    \/ \E y \in VariantYs : PairMouseMove(y)
    \/ PairDragTimer
    \/ PairStartAutoScroll
    \/ PairStopAutoScroll

SpecVariants == InitVariants /\ [][NextVariants]_vars

\* the text layer: cells of every length and measured width
Characters == <<"a", "b", "c", "d", "e", "f", "g", "h", "i", "j", "k", "l">>
Texts == {[k \in 1..n |-> Characters[((k - 1) % Len(Characters)) + 1]] : n \in 0..MaxTextLen}
TextWidths == 0..MaxTextWidth

NextText ==
    \/ \E i \in Instances, m \in MaxTops : FirstRender(i, m)
    \/ \E i \in Instances, text \in Texts, w \in TextWidths, cw \in CellWidths :
            DrawCellText(i, text, w, cw)

SpecText == InitOf({"CanvasTable"}) /\ [][NextText]_vars

\* two instances of one class in one document, each operated on its own
TwoLens == {3, 11}
TwoQueries == {<< >>, <<"a">>}

OperationOn(i) ==
    \/ \E m \in MaxTops : FirstRender(i, m)
    \/ \E n \in TwoLens : LoadData(i, n)
    \/ \E c \in 1..Len(ColumnIds), q \in TwoQueries : SearchInput(i, c, q)
    \/ SearchTimer(i)
    \/ \E o \in DragOffsets : ThumbMouseDown(i, o)
    \/ MouseUp(i)
    \/ Destroy(i)

NextTwo ==
    \/ \E i \in Instances, m \in MaxTops : FirstRender(i, m)
    \/ \E i \in Instances, n \in TwoLens : LoadData(i, n)
    \/ \E i \in Instances, c \in 1..Len(ColumnIds), q \in TwoQueries : SearchInput(i, c, q)
    \/ \E i \in Instances : SearchTimer(i)
    \/ \E i \in Instances, o \in DragOffsets : ThumbMouseDown(i, o)
    \/ \E i \in Instances : MouseUp(i)
    \/ \E i \in Instances : Destroy(i)

SpecTwo == InitFor(TwoInstances, Classes) /\ [][NextTwo]_vars

(***************************************************************************)
(* Properties                                                              *)
(***************************************************************************)
\* the dataset the window indexes: the filtered rows while a query is set
activeDataset(i) == IF isGrid(i) THEN G_activeData(World, i) ELSE tables[i].data
N(i) == Len(activeDataset(i))
V(i) == tables[i].visibleCount
loaded(i) == tables[i].data # << >>
min(a, b) == IF a <= b THEN a ELSE b
max(a, b) == IF a >= b THEN a ELSE b
maxStartOf(i) == max(0, N(i) - V(i))

\* C1: window bounds -- for every loaded dataset of length N, after any sequence of
\* wheel, drag and auto-scroll steps, 0 <= start <= end <= N.
C1_WindowBounds ==
    \A i \in Instances :
        loaded(i) =>
            /\ JsLe(0, tables[i].start)
            /\ JsLe(tables[i].start, tables[i].end)
            /\ JsLe(tables[i].end, N(i))

\* C2: window size -- end - start never exceeds visibleCount and is shorter than
\* visibleCount only when the dataset has fewer than visibleCount rows.
C2_WindowSize ==
    \A i \in Instances :
        loaded(i) =>
            /\ JsLe(JsSub(tables[i].end, tables[i].start), V(i))
            /\ JsLt(JsSub(tables[i].end, tables[i].start), V(i)) => N(i) < V(i)
            /\ JsSub(tables[i].end, tables[i].start) = min(V(i), N(i))


\* auto-scroll is Running while the instance holds a scheduling handle
running(i) == tables[i].autoScrollId # NULL
loopPending(i) == \E k \in DOMAIN raf : raf[k].inst = i /\ raf[k].kind = "auto"

\* C3: auto-scroll termination -- with no other input and frames firing fairly, a
\* running auto-scroll on a drawn table eventually reaches Stopped; it does not keep
\* rescheduling without advancing.
C3_AutoScrollTerminates ==
    \A i \in OneInstance :
        (quiet /\ running(i) /\ loopPending(i) /\ tables[i].rendered) ~> ~running(i)

\* C4: stop halts advancement -- once stopAutoScroll() has run while Running, no step
\* applies an auto-scroll advance to the window until a later startAutoScroll(), even
\* when the loop's reschedule was already registered and had not fired.
C4_StopHaltsAdvancement ==
    [][\A i \in Instances : halted[i] => ~stepped'[i]]_vars

\* stopped in mid-run on a drawn table: the window is strictly between the top and the
\* last position, and the loop's registered callback is gone
C4_Witness ==
    \E i \in Instances :
        /\ halted[i] /\ ~running(i) /\ ~loopPending(i)
        /\ tables[i].rendered
        /\ tables[i].start > 0
        /\ tables[i].start < maxStartOf(i)


\* C5: destroy() releases everything -- after destroy() on a drawn instance, whatever was
\* pending, auto-scroll is Stopped and no frame callback of the instance is pending.
C5_DestroyReleases ==
    [][\A i \in Instances :
          (dom[i].present /\ ~dom'[i].present) =>
              /\ tables'[i].autoScrollId = NULL
              /\ \A k \in DOMAIN raf' : raf'[k].inst # i]_vars

\* C6: loadData(rows) in any state replaces the dataset and the active dataset and resets
\* the window to start = 0, end = min(visibleCount, length(rows)).
C6_LoadDataResetsWindow ==
    [][\A i \in Instances, n \in ScrollLens :
          LoadData(i, n) =>
              /\ tables'[i].data = DataOf(n)
              /\ activeDataset(i)' = DataOf(n)
              /\ tables'[i].start = 0
              /\ tables'[i].end = min(tables'[i].visibleCount, n)]_vars

\* C7: resize(width, height) on a drawn table recomputes visibleCount and re-clamps the
\* window: afterwards start <= max(0, N - visibleCount) and
\* end = min(start + visibleCount, N), also when the clamped start is unchanged.
C7_ResizeReclamps ==
    [][\A i \in Instances, h \in ViewHeights :
          (Resize(i, h) /\ tables[i].rendered) =>
              /\ tables'[i].visibleCount = MathCeilDiv(h, CellHeight)
              /\ JsLe(tables'[i].start, maxStartOf(i)')
              /\ tables'[i].end = min(JsAdd(tables'[i].start, tables'[i].visibleCount), N(i)')]_vars

\* the rows a set of per-column queries selects: those matching every non-empty query
matchesEvery(row, queries) ==
    \A c \in DOMAIN queries :
        queries[c] = << >> \/ includes(toLowerCase(String(row[c])), toLowerCase(queries[c]))
selectedRows(rows, queries) == SelectSeq(rows, LAMBDA row : matchesEvery(row, queries))

\* C8: filter semantics -- once the debounce has elapsed after a search-field edit, the
\* active dataset is the dataset itself when every column query is empty, and otherwise
\* exactly the rows, in order, that match every non-empty column query.
C8_FilterSemantics ==
    [][\A i \in Instances :
          (SearchTimer(i) /\ dom[i].present) =>
              activeDataset(i)' = selectedRows(tables'[i].data, dom'[i].inputs)]_vars

\* C9: a filter change that produces an active dataset of length M resets the window to
\* [0, min(visibleCount, M)); a query matching no row leaves it at [0, 0).
C9_FilterResetsWindow ==
    [][\A i \in Instances :
          (SearchTimer(i) /\ dom[i].present) =>
              /\ tables'[i].start = 0
              /\ tables'[i].end = min(tables'[i].visibleCount, N(i)')]_vars

SCROLL_STEP(i) == IF isGrid(i) THEN G_SCROLL_STEP ELSE C_SCROLL_STEP
\* the window is where scrolling alone can leave it
windowInRange(i) ==
    /\ JsLe(0, tables[i].start) /\ JsLe(tables[i].start, maxStartOf(i))
    /\ tables[i].end = min(JsAdd(tables[i].start, V(i)), N(i))

\* C10: clamping at the extremes -- a scroll-up request from less than one step below the
\* top yields start = 0, a scroll-down request from less than one step above the bottom
\* yields end = N with start = max(0, N - visibleCount), and no scroll request moves the
\* window past either end.
C10_ClampingAtExtremes ==
    [][\A i \in Instances, e \in WheelEvents :
          (/\ Wheel(i, e) /\ ~e.horizontal /\ e.deltaY # 0
           /\ ~tables[i].isThrottled /\ tables[i].rendered /\ windowInRange(i)) =>
              /\ (e.deltaY < 0 /\ tables[i].start < SCROLL_STEP(i)) => tables'[i].start = 0
              /\ (e.deltaY > 0 /\ tables[i].start > maxStartOf(i) - SCROLL_STEP(i)) =>
                    (tables'[i].end = N(i) /\ tables'[i].start = maxStartOf(i))
              /\ JsLe(0, tables'[i].start) /\ JsLe(tables'[i].end, N(i))]_vars


\* C11: render() is idempotent -- however many times render() has been called, the cache
\* of rendered cells holds exactly the cells in the document and the document holds one
\* set of pointer listeners for the instance, so a pointer event is handled once.
C11_RenderIdempotent ==
    \A i \in Instances :
        tables[i].rendered =>
            /\ dom[i].listeners = 1
            /\ isGrid(i) => tables[i].renderedCells = 1


\* the pointer-move timer fires during a drag on a drawn table with a usable track
dragApplied(i) ==
    /\ DragTimer(i)
    /\ tables[i].rendered /\ dom[i].present /\ dom[i].maxTop > 0
    /\ isCanvas(i) => tables[i].isThumbDragging

\* C12: indicator-to-window mapping -- a drag that leaves the thumb at fraction r of the
\* usable track sets start = floor(r * (N - visibleCount)), clamped to
\* [0, N - visibleCount], and end = start + visibleCount.
C12_IndicatorToWindow ==
    [][\A i \in Instances :
          (dragApplied(i) /\ N(i) >= V(i)) =>
              /\ tables'[i].start =
                    max(0, min(N(i) - V(i),
                               MathFloorDiv(tables'[i].thumbTop[1] * (N(i) - V(i)),
                                            tables'[i].thumbTop[2] * dom[i].maxTop)))
              /\ tables'[i].end = JsAdd(tables'[i].start, V(i))]_vars


\* C13: indicator position invariant -- on a drawn table 0 <= thumbTop <=
\* trackHeight - thumbHeight, and whenever N - visibleCount <= 0 or
\* trackHeight <= thumbHeight the indicator is at thumbTop = 0.
C13_IndicatorPosition ==
    \A i \in Instances :
        (tables[i].rendered /\ dom[i].present) =>
            /\ 0 <= tables[i].thumbTop[1]
            /\ tables[i].thumbTop[1] <= dom[i].maxTop * tables[i].thumbTop[2]
            /\ (N(i) - V(i) <= 0 \/ dom[i].maxTop <= 0) => tables[i].thumbTop[1] = 0


\* the thumb is where syncThumbPositionWithScroll puts it for the current window
thumbInSync(i) ==
    tables[i].thumbTop =
        (IF isGrid(i) THEN G_syncThumbPositionWithScroll(World, i)
         ELSE C_syncThumbPositionWithScroll(World, i)).tables[i].thumbTop
\* the pending pointer move leaves the thumb where it is
movedInPlace(i) ==
    /\ tables[i].dragTimer # NoTimer
    /\ PxMinus(tables[i].dragTimer[1], tables[i].dragStartY) = tables[i].thumbTop

\* C14: round trip -- for a valid start in [0, N - visibleCount], mapping the window to
\* the thumb position and that position back through the drag mapping yields a start
\* within one row of the original.
C14_RoundTrip ==
    [][\A i \in Instances :
          (/\ dragApplied(i) /\ movedInPlace(i) /\ thumbInSync(i)
           /\ N(i) >= V(i) /\ windowInRange(i)) =>
              /\ tables'[i].start - tables[i].start <= 1
              /\ tables[i].start - tables'[i].start <= 1]_vars


\* C15: lifecycle safety -- every public operation completes without fault, in any
\* order after construction, also before render() or loadData() and with no rows.
C15_LifecycleSafety ==
    [][PublicOperation => ~fault']_vars


\* C16: stopAutoScroll() is idempotent -- called from any state it leaves the machine
\* Stopped with no reschedule registered, and called when already Stopped it changes
\* no state.
C16_StopIdempotent ==
    [][\A i \in Instances :
          StopAutoScroll(i) =>
              /\ tables'[i].autoScrollId = NULL
              /\ \A k \in DOMAIN raf' : ~(raf'[k].inst = i /\ raf'[k].kind = "auto")
              /\ ~running(i) => UNCHANGED <<tables, raf, dom>>]_vars

\* stopped while another frame callback of the instance stays registered
C16_Witness ==
    \E i \in Instances :
        /\ halted[i] /\ ~running(i) /\ ~loopPending(i)
        /\ \E k \in DOMAIN raf : raf[k].inst = i /\ raf[k].kind = "render"


\* the auto-scroll frame callbacks of instance i that are registered
loopCallbacks(i) == {k \in DOMAIN raf : raf[k].inst = i /\ raf[k].kind = "auto"}

\* C17: startAutoScroll() while Running is a no-op -- under any interleaving of start,
\* stop and frames at most one auto-scroll callback is registered, and autoScrollId
\* is non-null exactly when one is registered.
C17_SingleLoop ==
    \A i \in Instances :
        /\ Cardinality(loopCallbacks(i)) <= 1
        /\ running(i) <=> loopCallbacks(i) # {}

\* C18: instance isolation -- with two instances in one document, an operation on one
\* instance leaves the other's fields, its part of the document and the dataset it
\* draws from as they were.
observableState(j) == <<tables[j], dom[j], activeDataset(j)>>
C18_InstanceIsolation ==
    [][\A i \in Instances :
          OperationOn(i) =>
              \A j \in Instances \ {i} : observableState(j)' = observableState(j)]_vars

\* C19: text truncation -- with maxWidth = cellWidth - padding, a text that measures at
\* most maxWidth is drawn as it is; a wider one is drawn as at most
\* max(0, floor(maxWidth / avgCharWidth) - 3) of its leading characters followed by an
\* ellipsis, avgCharWidth being the measured width over the length.
C19_TextTruncation ==
    textLayer # << >> =>
        LET text == textLayer.text
            drawn == textLayer.drawn
            maxWidth == textLayer.cellWidth - 12
            kept == Len(drawn) - 3
            most == IF textLayer.fullWidthPx = 0 THEN 0
                    ELSE max(0, ((maxWidth * Len(text)) \div textLayer.fullWidthPx) - 3)
        IN IF textLayer.fullWidthPx <= maxWidth THEN drawn = text
           ELSE /\ kept >= 0 /\ kept <= most /\ kept <= Len(text)
                /\ \A k \in 1..kept : drawn[k] = text[k]
                /\ \A k \in 1..3 : drawn[kept + k] = "."
C19_Witness ==
    /\ textLayer # << >>
    /\ textLayer.fullWidthPx > textLayer.cellWidth - 12
    /\ Len(textLayer.drawn) > 3
    /\ Len(textLayer.drawn) < Len(textLayer.text)

\* the render callbacks registered for an instance, and its pending-frame flag
renderCallbacks(i) == {k \in DOMAIN raf : raf[k].inst = i /\ raf[k].kind = "render"}
framePending(i) == tables[i].isFrameUpdateScheduled
\* the fields of an instance other than its window and the wheel throttle
besidesWindow(t) == [t EXCEPT !.start = 0, !.end = 0, !.isThrottled = FALSE]

\* C20: frame coalescing -- at most one render callback is registered at any time and
\* the pending-frame flag is true exactly when one is; a scroll request that arrives
\* while the frame is pending registers no further callback and changes the window only;
\* when the callback fires the latest window is drawn and the engine is Idle again.
C20_FrameCoalescing ==
    /\ [](\A i \in Instances :
            /\ Cardinality(renderCallbacks(i)) <= 1
            /\ framePending(i) <=> renderCallbacks(i) # {})
    /\ [][\A i \in Instances :
            /\ (framePending(i) /\ \E e \in WheelEvents : Wheel(i, e)) =>
                    /\ raf' = raf
                    /\ besidesWindow(tables'[i]) = besidesWindow(tables[i])
            /\ (framePending(i) /\ ~loopPending(i) /\ FrameStep) =>
                    /\ ~framePending(i)'
                    /\ renderCallbacks(i)' = {}
                    /\ thumbInSync(i)']_vars
C20_Witness ==
    \E i \in Instances :
        /\ isGrid(i) /\ tables[i].rendered /\ loaded(i)
        /\ framePending(i) /\ renderCallbacks(i) # {}
        /\ tables[i].start = 2 * G_SCROLL_STEP
        /\ ~running(i) /\ ~halted[i]

\* C21: one render pass per frame -- whatever the interleaving of wheel, drag, search and
\* auto-scroll events, no event handler or timer draws the content itself: every change
\* is drawn by the frame callback, which runs at most one content render pass per
\* display frame.
C21_OnePassPerFrame ==
    [][\A i \in Instances :
          /\ \A e \in WheelEvents : Wheel(i, e) => WheelResult(i, e).passes[i] = 0
          /\ DragTimer(i) => DragTimerResult(i).passes[i] = 0
          /\ SearchTimer(i) => SearchTimerResult(i).passes[i] = 0
          /\ \A dt \in FrameDts : Frame(dt) => FrameResult(dt).passes[i] <= 1]_vars

\* where a scroll request by delta rows leaves start once it is clamped to the data
clampedStart(i, delta) == max(0, min(tables[i].start + delta, maxStartOf(i)))
\* the rows a vertical wheel event asks for
requestedRows(i, e) == IF e.deltaY > 0 THEN SCROLL_STEP(i) ELSE -SCROLL_STEP(i)
\* the fields of an instance other than the wheel throttle
besidesThrottle(t) == [t EXCEPT !.isThrottled = FALSE]
\* the frame runs the auto-scroll loop of instance i and nothing else
loopFrame(i, dt) ==
    /\ Frame(dt)
    /\ Len(raf) = 1 /\ loopPending(i)
    /\ stepped'[i]

\* C22: no-op at the extremes -- a scroll request (wheel or auto-scroll step) whose
\* clamped new start equals the current start changes no state and causes no redraw,
\* no indicator update and no frame callback registration.
C22_NoOpAtExtremes ==
    [][\A i \in Instances :
          /\ \A e \in WheelEvents :
                (/\ Wheel(i, e)
                 /\ ~tables[i].isThrottled /\ e.deltaY # 0 /\ ~e.horizontal
                 /\ clampedStart(i, requestedRows(i, e)) = tables[i].start) =>
                    /\ besidesThrottle(tables'[i]) = besidesThrottle(tables[i])
                    /\ raf' = raf
                    /\ WheelResult(i, e).passes[i] = 0
          /\ \A dt \in FrameDts :
                (loopFrame(i, dt) /\ clampedStart(i, SCROLL_STEP(i)) = tables[i].start) =>
                    /\ tables'[i].start = tables[i].start
                    /\ tables'[i].end = tables[i].end
                    /\ tables'[i].thumbTop = tables[i].thumbTop
                    /\ renderCallbacks(i)' = {}
                    /\ FrameResult(dt).passes[i] = 0]_vars

\* the row the drag mapping computes from the thumb offset the drag has just set
dragTarget(i) ==
    MathFloorDiv(tables'[i].thumbTop[1] * (IF isGrid(i) THEN Len(tables[i].data)
                                           ELSE Len(tables[i].data) - V(i)),
                 tables'[i].thumbTop[2] * dom[i].maxTop)

\* C23: drag snap at the end -- when the target row a drag computes lands within one
\* visible page of the end of the data, the window becomes exactly the final valid
\* window [N - visibleCount, N): start is never negative and end = N.
C23_DragSnapAtEnd ==
    [][\A i \in Instances :
          (dragApplied(i) /\ loaded(i) /\ dragTarget(i) >= N(i) - V(i)) =>
              /\ tables'[i].start = max(0, N(i) - V(i))
              /\ tables'[i].end = N(i)]_vars

\* nothing to scroll or nothing to drag along
degenerate(i) == N(i) = 0 \/ N(i) <= V(i) \/ maxThumbTravel(World, i) <= 0
\* the pointer-move timer fires on a drawn table (during a drag, for CanvasTable)
dragMove(i) ==
    /\ DragTimer(i)
    /\ tables[i].rendered
    /\ isCanvas(i) => tables[i].isThumbDragging
\* a step that runs syncThumbPositionWithScroll on a drawn table
indicatorSync(i) ==
    /\ tables[i].rendered
    /\ \/ isGrid(i) /\ framePending(i) /\ FrameStep
       \/ /\ isCanvas(i) /\ ~tables[i].isThrottled
          /\ \E e \in WheelEvents : ~e.horizontal /\ Wheel(i, e)
\* a finite, non-negative row index
validIndex(x) == ~isNaN(x) /\ x >= 0

\* C24: degenerate geometry is pinned at zero -- a drag move or an indicator sync with an
\* empty dataset, with N <= visibleCount or with no usable track leaves start = 0 and
\* thumbTop = 0, and stores no negative or non-finite value in the window or in the
\* indicator position.
C24_DegeneratePinned ==
    [][\A i \in Instances :
          /\ (dragMove(i) /\ degenerate(i)) =>
                /\ tables'[i].start = 0 /\ validIndex(tables'[i].end)
                /\ tables'[i].thumbTop = <<0, 1>>
          /\ (indicatorSync(i) /\ degenerate(i)') =>
                tables'[i].thumbTop = <<0, 1>>]_vars

\* the throttle lets the wheel event through to the scroll handler
acceptedWheel(i, e) == Wheel(i, e) /\ ~tables[i].isThrottled

\* C25: wheel throttle -- at least 16 ms pass between two wheel events the throttle
\* accepts, and a wheel event that arrives sooner after an accepted one leaves the
\* window alone.  The throttle's timer fires 16 ms after it is armed: every accepted
\* event arms it, only the timer disarms it, and an event that finds it armed changes
\* nothing.
C25_WheelThrottle ==
    [][\A i \in Instances :
          /\ \A e \in WheelEvents :
                /\ acceptedWheel(i, e) => tables'[i].isThrottled
                /\ (Wheel(i, e) /\ tables[i].isThrottled) =>
                        /\ tables'[i].start = tables[i].start
                        /\ tables'[i].end = tables[i].end
          /\ (tables[i].isThrottled /\ ~tables'[i].isThrottled) => ThrottleTimer(i)]_vars

\* the step runs the callback of a debounced function of instance i
searchCallback(i) == tables'[i].filteredData # tables[i].filteredData /\ ~(\E n \in DataLens : LoadData(i, n))
dragCallback(i) ==
    \/ tables'[i].start # tables[i].start
    \/ tables'[i].end # tables[i].end
    \/ tables'[i].thumbTop # tables[i].thumbTop

\* C26: trailing debounce -- of a burst of debounced calls, each sooner than the delay
\* after the one before, only the last is run: every call replaces the pending one, so
\* at most one timer is pending and it holds the arguments of the last call; when it
\* fires the callback runs once with those arguments and nothing is left pending; no
\* callback runs at any other step.
C26_TrailingDebounce ==
    /\ [](\A i \in Instances :
            Len(tables[i].searchTimer) <= 1 /\ Len(tables[i].dragTimer) <= 1)
    /\ [][\A i \in Instances :
            /\ \A c \in 1..Len(ColumnIds), q \in Queries :
                    SearchInput(i, c, q) =>
                        /\ tables'[i].searchTimer = <<[columnId |-> ColumnIds[c], value |-> q]>>
                        /\ tables'[i].filteredData = tables[i].filteredData
            /\ \A y \in MouseYs :
                    (MouseMove(i, y) /\ (isGrid(i) => tables[i].isThumbDragging)) =>
                        /\ tables'[i].dragTimer = <<Px(y, 1)>>
                        /\ ~dragCallback(i)
            /\ SearchTimer(i) =>
                    /\ tables'[i].searchTimer = << >>
                    /\ tables'[i].filteredData =
                            filter(tables[i].data, Number(tables[i].searchTimer[1].columnId),
                                   tables[i].searchTimer[1].value)
            /\ DragTimer(i) => tables'[i].dragTimer = << >>
            /\ searchCallback(i) => SearchTimer(i)
            /\ dragCallback(i) =>
                    \/ DragTimer(i)
                    \/ \E n \in DataLens : LoadData(i, n)
                    \/ \E m \in MaxTops : Render(i, m)]_vars
C26_Witness ==
    \E i \in Instances :
        /\ tables[i].searchTimer # << >>
        /\ tables[i].searchTimer[1].columnId = ColumnIds[2]
        /\ dom[i].inputs[1] = <<"z">>
        /\ loaded(i) /\ tables[i].filteredData = tables[i].data

\* the delay of the auto-scroll loop, and the time since lastScrollTime at a frame that
\* comes dt after the previous one
scrollDelay(i) == IF isGrid(i) THEN G_scrollDelay ELSE C_scrollDelay
elapsedAt(i, dt) == min(tables[i].lastScrollAge + dt, AgeCap)

\* C27: auto-scroll pacing -- a frame at time t of the Running loop applies the fixed
\* step if and only if t - lastScrollTime >= scrollDelay, and lastScrollTime becomes t
\* on exactly the frames that apply a step.
C27_AutoScrollPacing ==
    [][\A i \in Instances : \A dt \in FrameDts :
          (Frame(dt) /\ loopPending(i)) =>
              /\ stepped'[i] <=> elapsedAt(i, dt) >= scrollDelay(i)
              /\ tables'[i].lastScrollAge = IF stepped'[i] THEN 0 ELSE elapsedAt(i, dt)]_vars

\* the rows it takes to cover the viewport of instance i, the last one possibly cut
rowsToCover(i) == MathCeilDiv(tables[i].config.viewHeight, tables[i].config.cellHeight)

\* C28: visible-count derivation -- in every state from construction on, and so after
\* every resize, visibleCount is ceil(viewHeight / cellHeight) of the instance's
\* current configuration.
C28_VisibleCountDerivation ==
    \A i \in Instances : V(i) = rowsToCover(i)

\* the pointer-move timer fires when no drag is in progress
strayDragTimer(i) == DragTimer(i) /\ ~tables[i].isThumbDragging

\* C29: the drag flag guards the window -- once pointer-up has cleared the drag flag, no
\* pointer-move processing changes the window or the indicator: neither a pointer move
\* nor a debounced one that was armed during the drag and fires after it.
C29_DragFlagGuards ==
    [][\A i \in Instances :
          /\ strayDragTimer(i) => ~dragCallback(i)
          /\ \A y \in MouseYs :
                (MouseMove(i, y) /\ ~tables[i].isThumbDragging) => ~dragCallback(i)]_vars

\* the grids the app has opened and no longer holds
closedGrids == {i \in 1..app.opened : i # app.gridTable}

\* C30: app toggle consistency -- after any sequence of auto-scroll button clicks, file
\* loads, close clicks and self-terminations of the loop, the app's startScrolling flag
\* is true exactly when the auto-scroll machine of the grid it holds is Running, and no
\* auto-scroll loop runs for a grid that has been closed.
C30_AppToggleConsistency ==
    /\ app.gridTable # NULL => (app.startScrolling <=> running(app.gridTable))
    /\ \A i \in closedGrids : ~running(i) /\ ~loopPending(i)

\* a wheel event that arrives while the throttle is armed
suppressedWheel(i, e) == Wheel(i, e) /\ tables[i].isThrottled

\* C32: the throttle is leading-edge only -- a wheel event that arrives during the
\* throttle interval changes nothing when it arrives and is not replayed when the
\* interval ends: the timer only disarms the throttle.  The window therefore reflects
\* the event that opened the interval and none of those suppressed in it.
C32_ThrottleLeadingEdge ==
    [][\A i \in Instances :
          /\ \A e \in WheelEvents :
                suppressedWheel(i, e) =>
                    /\ tables' = tables /\ raf' = raf /\ dom' = dom
                    /\ WheelResult(i, e).passes[i] = 0
          /\ ThrottleTimer(i) =>
                    /\ besidesThrottle(tables'[i]) = besidesThrottle(tables[i])
                    /\ raf' = raf /\ dom' = dom]_vars
C32_Witness ==
    \E i \in Instances :
        /\ tables[i].isThrottled /\ tables[i].rendered /\ loaded(i)
        /\ tables[i].start = SCROLL_STEP(i)
        /\ tables[i].start < maxStartOf(i)

\* what a variant is as a windowing machine: the window, the page, the indicator and
\* the state of the auto-scroll machine
windowing(i) ==
    [start |-> tables[i].start, end |-> tables[i].end,
     visibleCount |-> tables[i].visibleCount, thumbTop |-> tables[i].thumbTop,
     running |-> running(i), loopPending |-> loopPending(i)]

\* C31: the two CanvasTable variants are equivalent as windowing machines -- driven by
\* the same sequence of loadData, wheel, drag, resize, startAutoScroll, stopAutoScroll
\* and frame events, the device-pixel-ratio corrected variant and the original have the
\* same start, end, visibleCount, thumbTop and auto-scroll state after every step.
C31_VariantsEquivalent == windowing(DprFixed) = windowing(Original)
C31_Witness ==
    /\ tables[Original].cls = "CanvasTableOriginal"
    /\ tables[Original].rendered /\ tables[Original].config.viewHeight = 154
    /\ tables[Original].start = 4 /\ tables[Original].end = 11
    /\ tables[Original].thumbTop = Px(4, 1)
    /\ running(Original) /\ tables[DprFixed].isThumbDragging
====
